---------------------------- MODULE Spec2Model ----------------------------
(***************************************************************************)
(* Bulk mail dispatch: the two programs of the repository.                 *)
(*                                                                         *)
(*   SpecRetry   src/email_sender.py  thread pool, ordered wait, retry     *)
(*               rounds bounded by --max-retries, no circuit breaker.      *)
(*   SpecStaged  src/emp_test.py      thread pool, as-completed drain,     *)
(*               global stop_script flag, probe batch of 2 then the rest.  *)
(*                                                                         *)
(* A transport response is what smtplib hands back to send_email: a        *)
(* normal return ("ok"), an SMTPResponseException ("reject", with its      *)
(* smtp_code and the shape of its smtp_error) or any other exception       *)
(* ("error").                                                              *)
(***************************************************************************)
EXTENDS Integers, Sequences, FiniteSets, TLC

\* ----------------------------------------------------------------- bounds
MaxRecipients == 3
MaxThreads == 2
MaxRetries == 2
MaxBulk == 4

\* ------------------------------------------------------ program constants
TransientLow == 450
TransientHigh == 499
ProbeSize == 2

\* -------------------------------------------------------------- responses
\* smtp_code values around both ends of the range send_email tests.
Codes == {449, 450, 499, 500}

\* smtp_error: "plain" decodes and holds no "5.7.1"; "sentinel" decodes and
\* holds "5.7.1"; "undecodable" makes e.smtp_error.decode() raise (a str
\* such as smtplib's own "Line too long.", or bytes that are not UTF-8).
Details == {"plain", "sentinel", "undecodable"}

NoResp == [kind |-> "none", code |-> 0, detail |-> "plain"]
OkResp == [kind |-> "ok", code |-> 0, detail |-> "plain"]
ErrResp == [kind |-> "error", code |-> 0, detail |-> "plain"]
Rejects(ds) == [kind : {"reject"}, code : Codes, detail : ds]

\* What the transport can answer in each program.  email_sender.py never
\* reads smtp_error, so two rejections with "5.7.1" in their detail, one
\* with a code of the retried range and one without, stand for all of them.
RetryResponses ==
    {OkResp, ErrResp} \cup Rejects({"plain"})
        \cup [kind : {"reject"}, code : {450, 500}, detail : {"sentinel"}]
\* emp_test.py never reads smtp_code except to print it, so two codes, one
\* on each side of 500, stand for all of them there.
StagedResponses ==
    {OkResp, ErrResp} \cup [kind : {"reject"}, code : {450, 500}, detail : Details]

VARIABLES
    \* ---- both programs
    threads,        \* args.threads
    batch,          \* the list send_emails_in_parallel / run_bulk was called with
    futures,        \* futures[i]: the i-th submission of the current call
    pc,             \* where the coordinator (the main thread) is
    \* ---- src/email_sender.py
    max_retries,    \* args.max_retries
    email_list,     \* main's email_list: one task per recipient, in file order
    acc,            \* send_emails_in_parallel's local failed_emails
    ci,             \* the index the collection loop waits on
    failed_emails,  \* main's failed_emails
    retry_attempt,  \* retry rounds started so far
    \* observation of a run of email_sender.py (not program state)
    attempts,       \* attempts[t]: send_email calls that ran for task t
    lastReturn,     \* lastReturn[t]: what send_email returned for t's last attempt
    nsubmitted,     \* submissions of the current round
    ncollected,     \* results collected in the current round
    submissions,    \* executor.submit calls of the whole run
    waits,          \* pacing waits the current round has completed
    stamps,         \* stamps[k]: the value of waits at the round's k-th submission
    \* ---- src/emp_test.py
    stop_script,    \* the global flag
    recipients,     \* main's recipients, in file order
    test_only,      \* args.test_only
    stage,          \* which run_bulk call of main: "probe" or "bulk"
    drained,        \* the futures as_completed has yielded so far
    exit_status,    \* the process's exit status, -1 while it runs
    exit_by,        \* what ends the process: "sys.exit", "exception", "return"
    \* observation of a run of emp_test.py (not program state)
    logged,         \* logged[r]: records send_results.log holds for recipient r
    answer,         \* answer[r]: what the transport answered for recipient r
    handed          \* the recipients handed to a pool so far

shared == <<threads, batch, futures, pc>>

retryOnly == <<max_retries, email_list, acc, ci, failed_emails, retry_attempt,
               attempts, lastReturn, nsubmitted, ncollected, submissions,
               waits, stamps>>

stagedOnly == <<stop_script, recipients, test_only, stage, drained, exit_status,
                exit_by, logged, answer, handed>>

vars == <<shared, retryOnly, stagedOnly>>

Range(s) == {s[i] : i \in 1..Len(s)}

\* ======================================================================
\* src/email_sender.py
\* ======================================================================

\* Branch with the lower comparison strict (smtp_code > 450).
BranchStrictLow(resp) ==
    IF resp.kind = "ok" THEN "sent"
    ELSE IF resp.kind = "reject"
         THEN IF resp.code > TransientLow /\ resp.code <= TransientHigh
              THEN "temporary"
              ELSE "bounced"
         ELSE "failed"

\* Branch with the catch-all handler treated like a temporary rejection.
BranchRetryError(resp) ==
    IF resp.kind = "ok" THEN "sent"
    ELSE IF resp.kind = "reject"
         THEN IF resp.code >= TransientLow /\ resp.code <= TransientHigh
              THEN "temporary"
              ELSE "bounced"
         ELSE "temporary"

\* The branch of send_email a response takes: the normal return ("sent"),
\* the SMTPResponseException handler with smtp_code in 450..499
\* ("temporary") or outside it ("bounced"), the catch-all handler ("failed").
Branch(resp) ==
    IF resp.kind = "ok" THEN "sent"
    ELSE IF resp.kind = "reject"
         THEN IF resp.code >= TransientLow /\ resp.code <= TransientHigh
              THEN "temporary"
              ELSE "bounced"
         ELSE "failed"

\* send_email's return value: False only from the "temporary" branch.
send_email(resp) == Branch(resp) # "temporary"

\* The outcome taxonomy the properties are worded in: a rejection whose
\* detail holds "5.7.1" is Fatal whatever its code; otherwise the code
\* decides between TransientBounce (450..499) and PermanentBounce.
Outcome(resp) ==
    IF resp.kind = "ok" THEN "Sent"
    ELSE IF resp.kind = "error" THEN "TransportError"
    ELSE IF resp.detail = "sentinel" THEN "Fatal"
    ELSE IF resp.code >= 450 /\ resp.code <= 499 THEN "TransientBounce"
    ELSE "PermanentBounce"

\* "5.7.1" in error_msg
HasSentinel(resp) == resp.kind = "reject" /\ resp.detail = "sentinel"

Running(fs) == {i \in 1..Len(fs) : fs[i].st = "running"}
Pending(fs) == {i \in 1..Len(fs) : fs[i].st = "pending"}

\* CanStart without the max_workers cap.
CanStartUncapped(fs, n, i) ==
    /\ i \in Pending(fs)
    /\ \A j \in Pending(fs) : i <= j

\* The pool's work queue is FIFO and at most max_workers threads exist.
CanStart(fs, n, i) ==
    /\ i \in Pending(fs)
    /\ \A j \in Pending(fs) : i <= j
    /\ Cardinality(Running(fs)) < n

RecipientLists == {[i \in 1..n |-> i] : n \in 1..MaxRecipients}

\* email_sender.py is not running.
RetryIdle ==
    /\ max_retries = 0
    /\ email_list = << >>
    /\ acc = << >>
    /\ ci = 1
    /\ failed_emails = << >>
    /\ retry_attempt = 0
    /\ attempts = [t \in 1..MaxRecipients |-> 0]
    /\ lastReturn = [t \in 1..MaxRecipients |-> "none"]
    /\ nsubmitted = 0
    /\ ncollected = 0
    /\ submissions = 0
    /\ waits = 0
    /\ stamps = << >>

\* emp_test.py is not running.
StagedIdle ==
    /\ stop_script = FALSE
    /\ recipients = << >>
    /\ test_only = FALSE
    /\ stage = "probe"
    /\ drained = {}
    /\ exit_status = -1
    /\ exit_by = ""
    /\ logged = [r \in 1..MaxBulk |-> 0]
    /\ answer = [r \in 1..MaxBulk |-> NoResp]
    /\ handed = {}

InitRetry ==
    /\ threads \in 1..MaxThreads
    /\ max_retries \in 0..MaxRetries
    /\ email_list \in RecipientLists
    /\ batch = email_list
    /\ futures = << >>
    /\ acc = << >>
    /\ ci = 1
    /\ failed_emails = << >>
    /\ retry_attempt = 0
    /\ pc = "submit"
    /\ attempts = [t \in 1..MaxRecipients |-> 0]
    /\ lastReturn = [t \in 1..MaxRecipients |-> "none"]
    /\ nsubmitted = 0
    /\ ncollected = 0
    /\ submissions = 0
    /\ waits = 0
    /\ stamps = << >>
    /\ StagedIdle

\* AfterSubmit with the pacing wait left out.
AfterSubmitNoWait(made, total) == IF made = total THEN "collect" ELSE "submit"

\* Where the coordinator is after executor.submit returns: at
\* time.sleep(0.1), whichever task of the list was submitted.
AfterSubmit(made, total) == "sleep"

\* executor.submit(send_email, ...): the task is queued and the coordinator
\* goes on to the pacing wait.
Submit ==
    /\ pc = "submit"
    /\ Len(futures) < Len(batch)
    /\ futures' = Append(futures, [st |-> "pending", res |-> TRUE, resp |-> NoResp])
    /\ nsubmitted' = nsubmitted + 1
    /\ submissions' = submissions + 1
    /\ stamps' = Append(stamps, waits)
    /\ pc' = AfterSubmit(Len(futures'), Len(batch))
    /\ UNCHANGED <<threads, batch, max_retries, email_list, acc, ci,
                   failed_emails, retry_attempt, attempts, lastReturn,
                   ncollected, waits, stagedOnly>>

\* time.sleep(0.1) returns; the loop takes the next task, or ends after the
\* last one and collection starts.  The wait does not look at any future.
Sleep ==
    /\ pc = "sleep"
    /\ waits' = waits + 1
    /\ pc' = IF Len(futures) = Len(batch) THEN "collect" ELSE "submit"
    /\ UNCHANGED <<threads, batch, futures, max_retries, email_list, acc, ci,
                   failed_emails, retry_attempt, attempts, lastReturn,
                   nsubmitted, ncollected, submissions, stamps, stagedOnly>>

\* A pool thread takes the oldest queued work item.
Start(i) ==
    /\ CanStart(futures, threads, i)
    /\ futures' = [futures EXCEPT ![i].st = "running"]
    /\ UNCHANGED <<threads, batch, pc, retryOnly, stagedOnly>>

\* The transport answers and send_email returns.
Finish(i, resp) ==
    /\ i \in Running(futures)
    /\ futures' = [futures EXCEPT
                      ![i] = [st |-> "done", res |-> send_email(resp), resp |-> resp]]
    /\ attempts' = [attempts EXCEPT ![batch[i]] = @ + 1]
    /\ lastReturn' = [lastReturn EXCEPT ![batch[i]] = send_email(resp)]
    /\ UNCHANGED <<threads, batch, pc, max_retries, email_list, acc, ci,
                   failed_emails, retry_attempt, nsubmitted, ncollected,
                   submissions, waits, stamps, stagedOnly>>

\* CollectedTask with the loop index dropped.
CollectedTaskFirst(list, i) == list[1]

\* The task the collection loop pairs with the i-th future.
CollectedTask(list, i) == list[i]

\* for i, future in enumerate(futures): success = future.result(); a False
\* appends batch[i].  After the last one the function returns.
Collect ==
    /\ pc = "collect"
    /\ ci <= Len(futures)
    /\ futures[ci].st = "done"
    /\ acc' = IF futures[ci].res THEN acc
              ELSE Append(acc, CollectedTask(batch, ci))
    /\ ncollected' = ncollected + 1
    /\ ci' = ci + 1
    /\ pc' = IF ci = Len(futures) THEN "main" ELSE "collect"
    /\ UNCHANGED <<threads, batch, futures, max_retries, email_list,
                   failed_emails, retry_attempt, attempts, lastReturn,
                   nsubmitted, submissions, waits, stamps, stagedOnly>>

\* RetryAgain with one round too many.
RetryAgainOneMore(done, bound, failed) == done <= bound /\ failed # << >>

\* The retry loop's test: another round is run while retry rounds remain
\* and the last round left something to retry.
RetryAgain(done, bound, failed) == done < bound /\ failed # << >>

\* main: failed_emails = send_emails_in_parallel(...), then
\* for retry_attempt in range(args.max_retries): break when nothing failed,
\* else call send_emails_in_parallel(args, failed_emails) again.
MainLoop ==
    /\ pc = "main"
    /\ failed_emails' = acc
    /\ IF RetryAgain(retry_attempt, max_retries, acc)
       THEN /\ batch' = acc
            /\ futures' = << >>
            /\ acc' = << >>
            /\ ci' = 1
            /\ retry_attempt' = retry_attempt + 1
            /\ nsubmitted' = 0
            /\ ncollected' = 0
            /\ waits' = 0
            /\ stamps' = << >>
            /\ pc' = "submit"
       ELSE /\ pc' = "done"
            /\ UNCHANGED <<batch, futures, acc, ci, retry_attempt,
                           nsubmitted, ncollected, waits, stamps>>
    /\ UNCHANGED <<threads, max_retries, email_list, attempts, lastReturn,
                   submissions, stagedOnly>>

NextRetry ==
    \/ Submit
    \/ Sleep
    \/ \E i \in 1..MaxRecipients : Start(i)
    \/ \E i \in 1..MaxRecipients : \E resp \in RetryResponses : Finish(i, resp)
    \/ Collect
    \/ MainLoop

SpecRetry == InitRetry /\ [][NextRetry]_vars

\* ======================================================================
\* Properties of src/email_sender.py
\* ======================================================================

Tasks == Range(email_list)
Residual == Range(failed_emails)

\* The tasks of s at the positions that satisfy Keep, in the order of s.
Picked(s, Keep(_)) ==
    LET idx == SelectSeq([i \in 1..Len(s) |-> i], Keep)
    IN  [k \in 1..Len(idx) |-> s[idx[k]]]

\* C4: no task is attempted more than max_retries + 1 times, and when the
\* run ends a task whose last attempt was answered with a code of 450..499
\* (so every task the transport never stops bouncing) has been attempted
\* exactly max_retries + 1 times and is in the residual list main reports.
C4_RetryBound ==
    /\ \A t \in Tasks : attempts[t] <= max_retries + 1
    /\ pc = "done" =>
          \A t \in Tasks :
              lastReturn[t] = FALSE =>
                  attempts[t] = max_retries + 1 /\ t \in Residual

\* Every attempt of every task bounced with a transient code, over at
\* least one retry round and at least two tasks.
C4_Witness ==
    /\ pc = "done"
    /\ max_retries >= 1
    /\ Len(email_list) >= 2
    /\ failed_emails = email_list
    /\ \A t \in Tasks : attempts[t] = max_retries + 1

\* C5: when a round follows another, its task list is exactly the tasks of
\* the previous round whose outcome there was TransientBounce, in the same
\* order; a Sent, PermanentBounce or Fatal task is in no later round.
C5_RetrySet ==
    [][retry_attempt' # retry_attempt =>
          batch' = Picked(batch,
                     LAMBDA i : Outcome(futures[i].resp) = "TransientBounce")]_vars

\* C6: once a round has seen a Fatal outcome, no retry round is started.
C6_NoRetryAfterFatal ==
    [][(\E i \in 1..Len(futures) : Outcome(futures[i].resp) = "Fatal")
          => retry_attempt' = retry_attempt]_vars

\* C7: when the run ends every initial task either returned True from its
\* last attempt (a terminal outcome) or is in the residual list, never both
\* and never neither, and the residual list holds no task twice; a round
\* that is over has collected one result per submission, one submission
\* per task of its list.
C7_Conservation ==
    /\ ncollected <= nsubmitted /\ nsubmitted <= Len(batch)
    /\ pc \in {"main", "done"} =>
          ncollected = nsubmitted /\ nsubmitted = Len(batch)
    /\ pc = "done" =>
          /\ \A t \in Tasks :
                 /\ lastReturn[t] \in BOOLEAN
                 /\ (lastReturn[t] = TRUE) # (t \in Residual)
          /\ Cardinality(Residual) = Len(failed_emails)

\* A run over in which one task ended terminal and another residual after
\* a retry round.
C7_Witness ==
    /\ pc = "done"
    /\ retry_attempt >= 1
    /\ \E t, u \in Tasks :
          /\ lastReturn[t] = TRUE /\ t \notin Residual
          /\ lastReturn[u] = FALSE /\ u \in Residual

C10_SentinelTerminal ==
    \A i \in 1..Len(futures) :
        (i < ci /\ Outcome(futures[i].resp) = "Fatal") =>
            batch[i] \notin Range(acc)

\* ======================================================================
\* src/emp_test.py
\* ======================================================================

\* error_msg = f"SMTP error {e.smtp_code}: {e.smtp_error.decode()}" raises
\* inside the handler when smtp_error does not decode; nothing catches it.
Raises(resp) == resp.kind = "reject" /\ resp.detail = "undecodable"

\* send_email calls log_result once on each path that gets past error_msg.
Records(resp) == ~Raises(resp)

\* Trips with the test made on the status code as well.
TripsOnPermanentCode(resp) == HasSentinel(resp) /\ resp.code >= 500

\* if "5.7.1" in error_msg: stop_script = True
Trips(resp) == HasSentinel(resp)

\* What the future of a send_email call that reached the transport holds.
Result(resp) ==
    IF resp.kind = "ok" THEN "True"
    ELSE IF Raises(resp) THEN "raised"
    ELSE "False"

\* StopAfter with the flag cleared by a successful send.
StopAfterResetOnSent(stop, resp) ==
    IF resp.kind = "ok" THEN FALSE ELSE stop \/ Trips(resp)

\* stop_script after a send_email call that got resp.
StopAfter(stop, resp) == stop \/ Trips(resp)

Min(a, b) == IF a <= b THEN a ELSE b

\* recipients[:2] and recipients[2:]
ProbeBatch(rs) == SubSeq(rs, 1, Min(ProbeSize, Len(rs)))
BulkBatch(rs) == SubSeq(rs, ProbeSize + 1, Len(rs))

\* Work items a pool thread has taken and not finished.
Busy(fs) == {i \in 1..Len(fs) : fs[i].st \in {"started", "sending"}}

\* The threads of the pool exist until the process is gone.
PoolAlive == pc \in {"submit", "drain", "unwind"}

\* executor.shutdown(wait=False, cancel_futures=True): every work item still
\* in the queue is cancelled; the ones a thread has taken are not touched.
Cancelled(fs) ==
    [i \in 1..Len(fs) |->
        IF fs[i].st = "pending" THEN [st |-> "cancelled", res |-> "none"]
        ELSE fs[i]]

InitStaged ==
    /\ threads \in 1..MaxThreads
    /\ recipients \in {[i \in 1..n |-> i] : n \in 1..MaxBulk}
    /\ test_only \in BOOLEAN
    /\ stop_script = FALSE
    /\ stage = "probe"
    /\ batch = ProbeBatch(recipients)
    /\ futures = << >>
    /\ drained = {}
    /\ pc = "submit"
    /\ exit_status = -1
    /\ exit_by = ""
    /\ logged = [r \in 1..MaxBulk |-> 0]
    /\ answer = [r \in 1..MaxBulk |-> NoResp]
    /\ handed = {}
    /\ RetryIdle

\* run_bulk: executor.submit(send_email, ...) then time.sleep(0.1), for
\* every recipient of the batch; stop_script is not read in this loop.
SSubmit ==
    /\ pc = "submit"
    /\ Len(futures) < Len(batch)
    /\ futures' = Append(futures, [st |-> "pending", res |-> "none"])
    /\ handed' = handed \cup {batch[Len(futures) + 1]}
    /\ pc' = IF Len(futures') = Len(batch) THEN "drain" ELSE "submit"
    /\ UNCHANGED <<threads, batch, retryOnly, stop_script, recipients,
                   test_only, stage, drained, exit_status, exit_by, logged,
                   answer>>

\* A pool thread takes the oldest queued work item.
SStart(i) ==
    /\ PoolAlive
    /\ i \in Pending(futures)
    /\ \A j \in Pending(futures) : i <= j
    /\ Cardinality(Busy(futures)) < threads
    /\ futures' = [futures EXCEPT ![i].st = "started"]
    /\ UNCHANGED <<threads, batch, pc, retryOnly, stagedOnly>>

\* GateStops with the flag never read.
GateStopsNever(stop) == FALSE

\* send_email's first statement: if stop_script: return False.
GateStops(stop) == stop

\* send_email: if stop_script: return False.
Gate(i) ==
    /\ PoolAlive
    /\ i \in 1..Len(futures)
    /\ futures[i].st = "started"
    /\ futures' = [futures EXCEPT
                      ![i] = IF GateStops(stop_script)
                             THEN [st |-> "done", res |-> "False"]
                             ELSE [st |-> "sending", res |-> "none"]]
    /\ UNCHANGED <<threads, batch, pc, retryOnly, stagedOnly>>

\* send_email from the transport's answer to its return: the log record,
\* the sentinel test and the assignment to stop_script.
Respond(i, resp) ==
    /\ PoolAlive
    /\ i \in 1..Len(futures)
    /\ futures[i].st = "sending"
    /\ answer' = [answer EXCEPT ![batch[i]] = resp]
    /\ logged' = [logged EXCEPT
                     ![batch[i]] = IF Records(resp) THEN @ + 1 ELSE @]
    /\ stop_script' = StopAfter(stop_script, resp)
    /\ futures' = [futures EXCEPT ![i] = [st |-> "done", res |-> Result(resp)]]
    /\ UNCHANGED <<threads, batch, pc, retryOnly, recipients, test_only,
                   stage, drained, exit_status, exit_by, handed>>

\* BreakerSeen with the flag read on the first completion only.
BreakerSeenOnFirst(stop, yielded) == stop /\ yielded = {}

\* The drain loop's test, made on every future as_completed yields:
\* if stop_script.
BreakerSeen(stop, yielded) == stop

\* run_bulk: one iteration of for future in as_completed(futures).  With
\* stop_script set: shutdown(wait=False, cancel_futures=True), sys.exit(1).
\* Otherwise future.result(), which raises what send_email raised.  After
\* the last future run_bulk returns.
Drain(i) ==
    /\ pc = "drain"
    /\ i \in (1..Len(futures)) \ drained
    /\ futures[i].st = "done"
    /\ drained' = drained \cup {i}
    /\ IF BreakerSeen(stop_script, drained)
       THEN /\ futures' = Cancelled(futures)
            /\ exit_by' = "sys.exit"
            /\ pc' = "unwind"
       ELSE IF futures[i].res = "raised"
       THEN /\ exit_by' = "exception"
            /\ pc' = "unwind"
            /\ UNCHANGED futures
       ELSE /\ pc' = IF drained' = 1..Len(futures) THEN "returned" ELSE "drain"
            /\ UNCHANGED <<futures, exit_by>>
    /\ UNCHANGED <<threads, batch, retryOnly, stop_script, recipients,
                   test_only, stage, exit_status, logged, answer, handed>>

\* SystemExit or the exception leaves the with block: shutdown(wait=True)
\* joins the pool's threads, which first finish what they run and what is
\* still queued; then the process ends with status 1.
Unwind ==
    /\ pc = "unwind"
    /\ Busy(futures) = {}
    /\ Pending(futures) = {}
    /\ pc' = "exited"
    /\ exit_status' = 1
    /\ UNCHANGED <<threads, batch, futures, retryOnly, stop_script,
                   recipients, test_only, stage, drained, exit_by, logged,
                   answer, handed>>

\* main after run_bulk(args, test_recipients, ...): sys.exit(1) with
\* stop_script set, sys.exit(0) in test-only mode, else
\* run_bulk(args, recipients[2:], ...), which returns at once for no
\* recipients.
AfterProbe ==
    /\ pc = "returned"
    /\ stage = "probe"
    /\ IF stop_script
       THEN /\ pc' = "exited"
            /\ exit_status' = 1
            /\ exit_by' = "sys.exit"
            /\ UNCHANGED <<batch, futures, stage, drained>>
       ELSE IF test_only
       THEN /\ pc' = "exited"
            /\ exit_status' = 0
            /\ exit_by' = "sys.exit"
            /\ UNCHANGED <<batch, futures, stage, drained>>
       ELSE /\ stage' = "bulk"
            /\ batch' = BulkBatch(recipients)
            /\ futures' = << >>
            /\ drained' = {}
            /\ pc' = IF batch' = << >> THEN "returned" ELSE "submit"
            /\ UNCHANGED <<exit_status, exit_by>>
    /\ UNCHANGED <<threads, retryOnly, stop_script, recipients, test_only,
                   logged, answer, handed>>

\* main after run_bulk(args, recipients[2:], ...): the last prints, and the
\* process ends with status 0.
AfterBulk ==
    /\ pc = "returned"
    /\ stage = "bulk"
    /\ pc' = "exited"
    /\ exit_status' = 0
    /\ exit_by' = "return"
    /\ UNCHANGED <<threads, batch, futures, retryOnly, stop_script,
                   recipients, test_only, stage, drained, logged, answer,
                   handed>>

NextStaged ==
    \/ SSubmit
    \/ \E i \in 1..MaxBulk : SStart(i)
    \/ \E i \in 1..MaxBulk : Gate(i)
    \/ \E i \in 1..MaxBulk : \E resp \in StagedResponses : Respond(i, resp)
    \/ \E i \in 1..MaxBulk : Drain(i)
    \/ Unwind
    \/ AfterProbe
    \/ AfterBulk

SpecStaged == InitStaged /\ [][NextStaged]_vars

\* The futures of the current round whose outcome is TransientBounce.
TransientBounces ==
    {i \in 1..Len(futures) : Outcome(futures[i].resp) = "TransientBounce"}

\* C13: the submissions of a run are the initial tasks plus, round by round,
\* the TransientBounce outcomes of each round that has a retry round left
\* after it: a run without a retry round made one submission per initial
\* task, a retry round is started only when the round before it left at
\* least one TransientBounce and submits exactly one task per TransientBounce
\* of that round, and a run that ends with retry rounds to spare ends on a
\* round without a TransientBounce.
C13_SubmissionCount ==
    /\ [](pc = "done" =>
            /\ retry_attempt = 0 => submissions = Len(email_list)
            /\ retry_attempt < max_retries => TransientBounces = {})
    /\ [][retry_attempt' # retry_attempt =>
            /\ TransientBounces # {}
            /\ Len(batch') = Cardinality(TransientBounces)]_vars

\* The scenario [a, b, c] with b bounced once: four submissions, nothing
\* left in the residual list.
C13_Scenario ==
    /\ pc = "done"
    /\ Len(email_list) = 3
    /\ attempts = [t \in 1..MaxRecipients |-> IF t = 2 THEN 2 ELSE IF t <= 3 THEN 1 ELSE 0]
    /\ submissions = 4
    /\ failed_emails = << >>

\* C17: between two consecutive submissions of a round the coordinator
\* completes exactly one pacing wait, whatever the workers have done in the
\* meantime: every submission is followed by the wait before the next
\* coordinator step, and the wait ends without a condition on any future.
C17_Pacing ==
    /\ [](/\ Len(stamps) = Len(futures)
          /\ \A k \in 1..(Len(stamps) - 1) : stamps[k + 1] = stamps[k] + 1)
    /\ [][/\ Len(futures') > Len(futures) => pc' = "sleep"
          /\ (pc = "sleep" /\ pc' # "sleep") => waits' = waits + 1
          /\ pc = "sleep" => Len(futures') = Len(futures)]_vars

\* Three submissions of one round, made while the first send had already
\* returned, the second was still running and so kept its thread.
C17_Witness ==
    /\ Len(futures) = 3
    /\ pc = "sleep"
    /\ futures[1].st = "done"
    /\ futures[2].st = "running"
    /\ futures[3].st = "pending"

\* C16: at any moment at most `threads` send_email calls of the pool are
\* running, however many tasks were submitted and however submissions,
\* starts and completions interleave.
C16_BoundedConcurrency == Cardinality(Running(futures)) <= threads

\* Every thread of the pool is busy while another task waits in the queue.
C16_Witness ==
    /\ threads >= 2
    /\ Cardinality(Running(futures)) = threads
    /\ Pending(futures) # {}

\* The futures of the current round whose attempt ended in the catch-all
\* handler (an exception that is not an SMTPResponseException).
TransportErrors ==
    {i \in 1..Len(futures) :
        futures[i].st = "done" /\ futures[i].resp.kind = "error"}

\* C20: an attempt that ends in a transport-level failure returns True; its
\* task is not appended to the round's failed list, is not in the list main
\* keeps as failed_emails, and is in no later round (a round's list is drawn
\* from the previous round's list and leaves these tasks out).
C20_TransportErrorTerminal ==
    /\ [](\A i \in TransportErrors :
            /\ futures[i].res = TRUE
            /\ batch[i] \notin Range(acc)
            /\ pc = "done" => batch[i] \notin Residual)
    /\ [][/\ Range(batch') \subseteq Range(batch)
          /\ retry_attempt' # retry_attempt =>
                \A i \in TransportErrors : batch[i] \notin Range(batch')]_vars

\* A round with a transport-level failure has been collected and a retry
\* round for its temporarily rejected tasks is about to start.
C20_Witness ==
    /\ pc = "main"
    /\ acc # << >>
    /\ retry_attempt < max_retries
    /\ TransportErrors # {}

\* ======================================================================
\* Properties of src/emp_test.py
\* ======================================================================

ProbeSet == Range(ProbeBatch(recipients))

\* Some send_email call got a Fatal answer for recipient r.
GotFatal(r) == Outcome(answer[r]) = "Fatal"

\* C1: once stop_script is set, run_bulk hands no further task to the pool.
C1_NoSubmissionAfterTrip == [][stop_script => handed' = handed]_vars

\* C2: stop_script starts False and no step takes it from True to False,
\* so it changes at most once in a run, however many workers assign it.
C2_TrippedOnce == (stop_script = FALSE) /\ [][stop_script => stop_script']_vars

\* Two workers each got a Fatal answer and assigned stop_script.
C2_Witness ==
    /\ stop_script
    /\ \E r, q \in handed : r # q /\ GotFatal(r) /\ GotFatal(q)

\* C3: when a task of the probe batch got a Fatal answer, main never leaves
\* the probe stage, no recipient past the first two is handed to a pool,
\* and the process does not end with status 0; in either mode.
C3_ProbeFatalAborts ==
    (\E r \in ProbeSet : GotFatal(r)) =>
        /\ stage = "probe"
        /\ handed \subseteq ProbeSet
        /\ pc = "exited" => exit_status = 1

\* The run ended after a Fatal answer in the probe batch, with recipients
\* left for the bulk stage and test-only mode off.
C3_Witness ==
    /\ \E r \in ProbeSet : GotFatal(r)
    /\ pc = "exited"
    /\ ~test_only
    /\ Len(recipients) > ProbeSize

\* C8: no recipient ever has two log records, and when a round is over
\* (run_bulk has returned or the process has ended) every recipient handed
\* to a pool has exactly one.
C8_OneRecordPerAttempt ==
    /\ \A r \in handed : logged[r] <= 1
    /\ pc \in {"returned", "exited"} => \A r \in handed : logged[r] = 1

\* The transport call for recipient r was made and has returned.
Answered(r) == answer[r] # NoResp

\* C11: when a tripped run has ended, every attempt whose transport call
\* was made has its record in the log, nothing is left queued or running,
\* and the exit status is 1.  (That the run does end is the liveness part
\* of the claim; a finite run refutes the part stated here.)
C11_DrainedAfterTrip ==
    (stop_script /\ pc = "exited") =>
        /\ \A r \in handed : Answered(r) => logged[r] = 1
        /\ Pending(futures) = {} /\ Busy(futures) = {}
        /\ exit_status = 1

\* C12: the process ends with a non-zero status exactly when stop_script
\* is set at the end.
C12_ExitStatus ==
    pc = "exited" => ((exit_status # 0) <=> stop_script)

\* C14: in test-only mode no recipient past the first two is handed to a
\* pool, and the process ends with status 0 exactly when no probe task
\* tripped the breaker.
C14_ProbeOnly ==
    test_only =>
        /\ handed \subseteq ProbeSet
        /\ pc = "exited" => ((exit_status = 0) <=> ~stop_script)

\* C15: in a run without a Fatal answer no exception ends the process, and
\* when a round is over every task handed to the pool has been executed
\* and answered.
C15_FailureIsolation ==
    (\A r \in handed : ~GotFatal(r)) =>
        /\ exit_by # "exception"
        /\ pc \in {"returned", "exited"} => \A r \in handed : Answered(r)

\* C18: run_bulk never returns to main with stop_script set (so a trip is
\* always acted on inside run_bulk, never at main's own test after the
\* probe), and a run that ends with stop_script set ends with status 1.
C18_TripAlwaysObserved ==
    /\ pc = "returned" => ~stop_script
    /\ (stop_script /\ pc = "exited") => exit_status = 1

\* The trip was seen on a completion that was not the first one drained.
C18_Witness ==
    /\ stop_script
    /\ pc = "exited"
    /\ exit_by = "sys.exit"
    /\ Cardinality(drained) >= 2

\* C19: a work item that has not passed send_email's gate when stop_script
\* is set never reaches the transport: its next step leaves it queued,
\* taken, finished or cancelled, with no answer and no log record; and no
\* recipient has a log record without a transport call having returned.
C19_GateAfterTrip ==
    /\ [](\A r \in handed : ~Answered(r) => logged[r] = 0)
    /\ [][\A i \in 1..Len(futures) :
            (stop_script /\ futures[i].st \in {"pending", "started"}) =>
                /\ i \in 1..Len(futures')
                /\ futures'[i].st \in {"pending", "started", "done", "cancelled"}
                /\ ~Answered(batch[i])'
                /\ logged'[batch[i]] = 0]_vars

\* A send_email call that began after another call's trip returned at its
\* gate: its future is done with no answer and no log record.
C19_Witness ==
    /\ stop_script
    /\ \E i, j \in 1..Len(futures) :
          /\ futures[i].st = "done" /\ ~Answered(batch[i]) /\ logged[batch[i]] = 0
          /\ futures[j].st = "done" /\ GotFatal(batch[j]) /\ logged[batch[j]] = 1

=============================================================================
